---- MODULE Spec2Model ----
(***************************************************************************)
(* A model of clipboard-rs: the content model (ClipboardContent and its    *)
(* ContentData implementation), the image value (RustImageData) and the    *)
(* watcher lifecycle (ClipboardWatcher / WatcherShutdown).                 *)
(*                                                                         *)
(* A Rust String is a sequence of Unicode scalar values; a Vec<u8> or      *)
(* &[u8] is a sequence of bytes.  String::as_bytes is the UTF-8 encoding   *)
(* and std::str::from_utf8 is the UTF-8 validation/decoding.               *)
(***************************************************************************)
EXTENDS Integers, Sequences, FiniteSets, TLC

VARIABLES
    content,    \* the ClipboardContent value under inspection
    rFormat,    \* <<>> or <<result of get_format>>
    rBytes,     \* <<>> or <<result of as_bytes>>
    rStr,       \* <<>> or <<result of as_str>>
    img,        \* the RustImageData the last image operation was applied to
    iret,       \* the last image operation and what it returned
    io,         \* the codec / file-system calls the last image operation made
    fs,         \* the file system: path -> file content
    wstate,     \* watcher life cycle: "Idle", "Watching", "Stopped"
    handlers,   \* the registered handlers, in registration order
    token,      \* the WatcherShutdown token: "none", "held", "stopped", "dropped"
    signal,     \* TRUE once the shutdown signal has been delivered to the loop
    pending,    \* clipboard changes made by other processes, not yet detected
    changes,    \* clipboard changes made so far
    pc,         \* position of the watch loop: "idle", "check", "dispatch", "done"
    round,      \* handlers invoked so far for the change being dispatched
    running,    \* handlers whose on_clipboard_change call has not returned yet
    reason      \* why start_watch returned: "", "shutdown", "os_error"

contentVars == <<content, rFormat, rBytes, rStr>>
imageVars   == <<img, iret, io, fs>>
watchVars   == <<wstate, handlers, token, signal, pending, changes, pc, round, running, reason>>
vars        == <<contentVars, imageVars, watchVars>>

(***************************************************************************)
(* Bounds of the model.                                                    *)
(***************************************************************************)
MaxStrLen   == 2    \* longest String payload, in characters
MaxBytes    == 3    \* longest Vec<u8> payload of Other
MaxFiles    == 2    \* longest Files list
MaxDim      == 2    \* largest width / height of a pixel buffer
MaxHandlers == 2    \* most handlers registered on one watcher
MaxChanges  == 2    \* most clipboard changes made by other processes

(***************************************************************************)
(* Result<T>: Ok(v) / Err(e).  Option<T>: <<>> (None) / <<v>> (Some(v)).     *)
(***************************************************************************)
Ok(v)  == [ok |-> TRUE, val |-> v]
Err(e) == [ok |-> FALSE, err |-> e]

(***************************************************************************)
(* UTF-8.  Chars are the scalar values the strings of the model are built  *)
(* from: 'A' (1 byte), U+00E9 (2 bytes), U+20AC (3 bytes).  ByteVals are the   *)
(* bytes raw buffers are built from: 0x41, 0xC3, 0xA9 and 0xC0 (the lead   *)
(* byte of an overlong form, never valid).                                 *)
(***************************************************************************)
Chars    == {65, 233, 8364}
ByteVals == {65, 195, 169, 192}

SeqsUpTo(S, n) == UNION {[1..k -> S] : k \in 0..n}

\* char::encode_utf8, as used by String: the bytes of one scalar value.
Utf8EncodeChar(c) ==
    IF c < 128 THEN <<c>>
    ELSE IF c < 2048 THEN <<192 + (c \div 64), 128 + (c % 64)>>
    ELSE IF c < 65536 THEN
        <<224 + (c \div 4096), 128 + ((c \div 64) % 64), 128 + (c % 64)>>
    ELSE <<240 + (c \div 262144), 128 + ((c \div 4096) % 64),
           128 + ((c \div 64) % 64), 128 + (c % 64)>>

\* String::as_bytes: the UTF-8 bytes of a string.
RECURSIVE Utf8Encode(_)
Utf8Encode(s) ==
    IF s = <<>> THEN <<>>
    ELSE Utf8EncodeChar(Head(s)) \o Utf8Encode(Tail(s))

IsCont(b) == b >= 128 /\ b <= 191

\* Width of the well-formed UTF-8 sequence at the head of b; 0 if there is none.
Utf8Width(b) ==
    LET n  == Len(b)
        b1 == b[1]
    IN  IF b1 < 128 THEN 1
        ELSE IF b1 >= 194 /\ b1 <= 223
            THEN IF n >= 2 /\ IsCont(b[2]) THEN 2 ELSE 0
        ELSE IF b1 >= 224 /\ b1 <= 239
            THEN IF n >= 3 /\ IsCont(b[3])
                    /\ b[2] >= (IF b1 = 224 THEN 160 ELSE 128)
                    /\ b[2] <= (IF b1 = 237 THEN 159 ELSE 191)
                 THEN 3 ELSE 0
        ELSE IF b1 >= 240 /\ b1 <= 244
            THEN IF n >= 4 /\ IsCont(b[3]) /\ IsCont(b[4])
                    /\ b[2] >= (IF b1 = 240 THEN 144 ELSE 128)
                    /\ b[2] <= (IF b1 = 244 THEN 143 ELSE 191)
                 THEN 4 ELSE 0
        ELSE 0

\* The same, accepting the overlong lead bytes 0xC0 and 0xC1.
Utf8WidthLax(b) ==
    IF b[1] >= 192 /\ b[1] <= 193
    THEN IF Len(b) >= 2 /\ IsCont(b[2]) THEN 2 ELSE 0
    ELSE Utf8Width(b)

\* The scalar value of a well-formed sequence of w bytes at the head of b.
Utf8Scalar(b, w) ==
    IF w = 1 THEN b[1]
    ELSE IF w = 2 THEN (b[1] % 32) * 64 + (b[2] % 64)
    ELSE IF w = 3 THEN (b[1] % 16) * 4096 + (b[2] % 64) * 64 + (b[3] % 64)
    ELSE (b[1] % 8) * 262144 + (b[2] % 64) * 4096 + (b[3] % 64) * 64 + (b[4] % 64)

Drop(b, k) == SubSeq(b, k + 1, Len(b))

\* A mis-validating from_utf8: lets overlong two-byte forms through.
RECURSIVE from_utf8_lax(_)
from_utf8_lax(data) ==
    IF data = <<>> THEN Ok(<<>>)
    ELSE LET w == Utf8WidthLax(data)
         IN  IF w = 0 THEN Err("Utf8Error")
             ELSE LET rest == from_utf8_lax(Drop(data, w))
                  IN  IF rest.ok THEN Ok(<<Utf8Scalar(data, w)>> \o rest.val)
                      ELSE rest

\* std::str::from_utf8(data).map_err(|e| e.into())
RECURSIVE from_utf8(_)
from_utf8(data) ==
    IF data = <<>> THEN Ok(<<>>)
    ELSE LET w == Utf8Width(data)
         IN  IF w = 0 THEN Err("Utf8Error")
             ELSE LET rest == from_utf8(Drop(data, w))
                  IN  IF rest.ok THEN Ok(<<Utf8Scalar(data, w)>> \o rest.val)
                      ELSE rest

(***************************************************************************)
(* RustImageData { width, height, data: Option<DynamicImage> }.  A         *)
(* DynamicImage is modelled by the dimensions of its pixel buffer.         *)
(***************************************************************************)
Dim == 0..MaxDim

\* The widths and heights callers ask thumbnail and resize for.
ReqDim == {0, 1, MaxDim}
DynamicImages == [w : Dim, h : Dim]

RustImageData(width, height, data) ==
    [width |-> width, height |-> height, data |-> data]

\* image.dimensions() / image.width() / image.height()
dimensions(image) == <<image.w, image.h>>

empty == RustImageData(0, 0, <<>>)

is_empty(self) == self.data = <<>>

get_size(self) == <<self.width, self.height>>

from_dynamic_image(image) ==
    RustImageData(dimensions(image)[1], dimensions(image)[2], <<image>>)

(***************************************************************************)
(* ContentFormat and ClipboardContent.                                     *)
(***************************************************************************)
FormatNames == {"fmtA", "fmtB"}

ContentFormat(tag)  == [tag |-> tag]
FormatOther(name)   == [tag |-> "Other", name |-> name]

Strings   == SeqsUpTo(Chars, MaxStrLen)
PathStrs  == SeqsUpTo(Chars, 1)
FileLists == SeqsUpTo(PathStrs, MaxFiles)
Buffers   == SeqsUpTo(ByteVals, MaxBytes)
ContentImages == {empty} \cup {from_dynamic_image(i) : i \in DynamicImages}

ClipboardContent ==
         [tag : {"Text", "Rtf", "Html"}, s : Strings]
    \cup [tag : {"Image"}, img : ContentImages]
    \cup [tag : {"Files"}, list : FileLists]
    \cup [tag : {"Other"}, format : FormatNames, bytes : Buffers]

TextLike == {"Text", "Rtf", "Html"}

get_format(c) ==
    IF c.tag = "Other" THEN FormatOther(c.format)
    ELSE ContentFormat(c.tag)

\* The Files arm taking the last path instead of the first.
as_bytes_files_last(data) ==
    IF Len(data) > 0 THEN Utf8Encode(data[Len(data)]) ELSE <<>>

\* The Files arm of as_bytes: data.first() -> path.as_bytes(), else &[].
as_bytes_files(data) ==
    IF Len(data) > 0 THEN Utf8Encode(data[1]) ELSE <<>>

\* The text arms of as_bytes losing the last byte of the string.
as_bytes_text_short(data) ==
    LET b == Utf8Encode(data) IN SubSeq(b, 1, Len(b) - 1)

\* The Text / Rtf / Html arms of as_bytes: data.as_bytes().
as_bytes_text(data) == Utf8Encode(data)

as_bytes(c) ==
    IF c.tag \in TextLike THEN as_bytes_text(c.s)
    ELSE IF c.tag = "Image" THEN <<>>
    ELSE IF c.tag = "Files" THEN as_bytes_files(c.list)
    ELSE c.bytes

\* The Files arm taking the last path instead of the first.
as_str_files_last(data) ==
    IF Len(data) > 0 THEN Ok(data[Len(data)]) ELSE Err("content is empty")

\* The Files arm of as_str: data.first() -> Ok(path), else Err.
as_str_files(data) ==
    IF Len(data) > 0 THEN Ok(data[1]) ELSE Err("content is empty")

\* An Image arm of as_str that answers with an empty string.
as_str_image_blank(image) == Ok(<<>>)

\* The Image arm of as_str.
as_str_image(image) == Err("can't convert image to string")

as_str(c) ==
    IF c.tag \in TextLike THEN Ok(c.s)
    ELSE IF c.tag = "Image" THEN as_str_image(c.img)
    ELSE IF c.tag = "Files" THEN as_str_files(c.list)
    ELSE from_utf8(c.bytes)

(***************************************************************************)
(* The content model as a state machine: any value of the type is taken,   *)
(* and its three ContentData operations are called on it in any order.     *)
(***************************************************************************)
ContentInit ==
    /\ content \in ClipboardContent
    /\ rFormat = <<>>
    /\ rBytes = <<>>
    /\ rStr = <<>>

CallGetFormat ==
    /\ rFormat' = <<get_format(content)>>
    /\ UNCHANGED <<content, rBytes, rStr>>
    /\ UNCHANGED <<imageVars, watchVars>>

CallAsBytes ==
    /\ rBytes' = <<as_bytes(content)>>
    /\ UNCHANGED <<content, rFormat, rStr>>
    /\ UNCHANGED <<imageVars, watchVars>>

CallAsStr ==
    /\ rStr' = <<as_str(content)>>
    /\ UNCHANGED <<content, rFormat, rBytes>>
    /\ UNCHANGED <<imageVars, watchVars>>

(***************************************************************************)
(* The image codec and the file system (the image crate and std::fs).      *)
(* They are external: a decode fails on a missing or malformed input, an   *)
(* encode or a save may fail, resize_exact yields the requested            *)
(* dimensions, and the dimensions thumbnail yields are any that fit the box.*)
(***************************************************************************)
Missing == [kind |-> "missing"]
Junk    == [kind |-> "junk"]
Encoded(fmt, image) == [kind |-> "image", fmt |-> fmt, w |-> image.w, h |-> image.h]

ReadPaths == {"in.png", "junk.png", "none.png", "out.png"}
SavePaths == {"out.png", "out.xyz"}
Paths     == ReadPaths \cup SavePaths

ByteInputs   == {Junk} \cup {Encoded("bmp", i) : i \in DynamicImages}

\* image::load_from_memory(bytes)
load_from_memory(bytes) ==
    IF bytes.kind = "image" THEN Ok([w |-> bytes.w, h |-> bytes.h])
    ELSE Err("decode error")

\* image::open(path)
open(fsys, path) ==
    IF fsys[path].kind = "missing" THEN Err("io error")
    ELSE load_from_memory(fsys[path])

AtLeastOne(n) == IF n < 1 THEN 1 ELSE n

\* image.thumbnail(width, height): some pixel buffer that fits the requested box
\* (the codec never returns less than one pixel's room).
codec_thumbnail(image, width, height) ==
    {i \in DynamicImages : i.w <= AtLeastOne(width) /\ i.h <= AtLeastOne(height)}

\* image.resize_exact(width, height, filter)
resize_exact(image, width, height) == [w |-> width, h |-> height]

\* image.write_to(&mut Cursor::new(&mut bytes), format): the possible outcomes.
write_to(image, format) == {Ok(Encoded(format, image)), Err("encode error")}

\* image.save(path): the possible outcomes; the format follows the extension.
save(image, path) ==
    IF path = "out.png" THEN {Ok(Encoded("png", image)), Err("io error")}
    ELSE {Err("unsupported extension")}

\* Stands for the codec outcome of an operation that never reaches the codec.
NoCall == Err("not called")

Outcome(ret, calls, fsys) == [ret |-> ret, io |-> calls, fs |-> fsys]

from_path(fsys, path) ==
    LET image == open(fsys, path)
    IN  IF image.ok
        THEN Outcome(Ok(RustImageData(dimensions(image.val)[1],
                                      dimensions(image.val)[2], <<image.val>>)),
                     <<"image::open">>, fsys)
        ELSE Outcome(image, <<"image::open">>, fsys)

from_bytes(fsys, bytes) ==
    LET image == load_from_memory(bytes)
    IN  IF image.ok
        THEN Outcome(Ok(RustImageData(dimensions(image.val)[1],
                                      dimensions(image.val)[2], <<image.val>>)),
                     <<"image::load_from_memory">>, fsys)
        ELSE Outcome(image, <<"image::load_from_memory">>, fsys)

\* A thumbnail that records the requested size instead of the size it got.
thumbnail_requested_size(self, width, height, resized, fsys) ==
    IF self.data # <<>>
    THEN Outcome(Ok(RustImageData(width, height, <<resized>>)),
                 <<"image.thumbnail">>, fsys)
    ELSE Outcome(Err("image is empty"), <<>>, fsys)

\* thumbnail(&self, width, height); resized is what image.thumbnail returned.
thumbnail(self, width, height, resized, fsys) ==
    IF self.data # <<>>
    THEN Outcome(Ok(RustImageData(resized.w, resized.h, <<resized>>)),
                 <<"image.thumbnail">>, fsys)
    ELSE Outcome(Err("image is empty"), <<>>, fsys)

\* resize(&self, width, height, filter)
resize(self, width, height, fsys) ==
    IF self.data # <<>>
    THEN LET resized == resize_exact(self.data[1], width, height)
         IN  Outcome(Ok(RustImageData(resized.w, resized.h, <<resized>>)),
                     <<"image.resize_exact">>, fsys)
    ELSE Outcome(Err("image is empty"), <<>>, fsys)

\* image_to_format!: to_jpeg / to_png / to_bitmap; written is what write_to returned.
image_to_format(self, written, fsys) ==
    IF self.data # <<>>
    THEN Outcome(written, <<"image.write_to">>, fsys)
    ELSE Outcome(Err("image is empty"), <<>>, fsys)

\* A save_to_path that writes an empty file for the empty image.
save_to_path_empty_file(self, path, saved, fsys) ==
    IF self.data # <<>>
    THEN IF saved.ok
         THEN Outcome(Ok("unit"), <<"image.save">>, [fsys EXCEPT ![path] = saved.val])
         ELSE Outcome(saved, <<"image.save">>, fsys)
    ELSE Outcome(Ok("unit"), <<"fs::write">>, [fsys EXCEPT ![path] = Junk])

\* save_to_path(&self, path); saved is what image.save returned.
save_to_path(self, path, saved, fsys) ==
    IF self.data # <<>>
    THEN IF saved.ok
         THEN Outcome(Ok("unit"), <<"image.save">>, [fsys EXCEPT ![path] = saved.val])
         ELSE Outcome(saved, <<"image.save">>, fsys)
    ELSE Outcome(Err("image is empty"), <<>>, fsys)

(***************************************************************************)
(* The image value as a state machine.  img is the value the last          *)
(* operation was called on, iret what it returned; the next operation is   *)
(* called on either of the two.                                            *)
(***************************************************************************)
Constructors == {"empty", "from_dynamic_image"}
Fallible     == {"from_path", "from_bytes", "thumbnail", "resize"}
Encoders     == {"to_jpeg", "to_png", "to_bitmap"}
NeedPixels   == {"thumbnail", "resize", "save_to_path"} \cup Encoders

FormatOf(op) == IF op = "to_jpeg" THEN "jpeg" ELSE IF op = "to_png" THEN "png" ELSE "bmp"

\* The RustImageData value the last operation produced, if any.
Produced ==
    IF iret.op \in Constructors THEN {iret.ret}
    ELSE IF iret.op \in Fallible /\ iret.ret.ok THEN {iret.ret.val}
    ELSE {}

Held == {img} \cup Produced

Apply(self, op, out) ==
    /\ img' = self
    /\ iret' = [op |-> op, ret |-> out.ret]
    /\ io' = out.io
    /\ fs' = out.fs
    /\ UNCHANGED <<contentVars, watchVars>>

ImageInit ==
    /\ img = empty
    /\ iret = [op |-> "empty", ret |-> empty]
    /\ io = <<>>
    /\ fs = [p \in Paths |->
                IF p = "in.png" THEN Encoded("png", [w |-> MaxDim, h |-> 1])
                ELSE IF p = "junk.png" THEN Junk
                ELSE Missing]

CallEmpty ==
    \E self \in Held : Apply(self, "empty", Outcome(empty, <<>>, fs))

CallFromDynamicImage ==
    \E self \in Held, image \in DynamicImages :
        Apply(self, "from_dynamic_image", Outcome(from_dynamic_image(image), <<>>, fs))

CallFromPath ==
    \E self \in Held, path \in ReadPaths :
        Apply(self, "from_path", from_path(fs, path))

CallFromBytes ==
    \E self \in Held, bytes \in ByteInputs :
        Apply(self, "from_bytes", from_bytes(fs, bytes))

CallIsEmpty ==
    \E self \in Held : Apply(self, "is_empty", Outcome(is_empty(self), <<>>, fs))

CallGetSize ==
    \E self \in Held : Apply(self, "get_size", Outcome(get_size(self), <<>>, fs))

CallThumbnail ==
    \E self \in Held, width \in ReqDim, height \in ReqDim :
        \E resized \in (IF self.data = <<>> THEN {[w |-> 0, h |-> 0]}
                        ELSE codec_thumbnail(self.data[1], width, height)) :
            Apply(self, "thumbnail", thumbnail(self, width, height, resized, fs))

CallResize ==
    \E self \in Held, width \in ReqDim, height \in ReqDim :
        Apply(self, "resize", resize(self, width, height, fs))

CallImageToFormat ==
    \E self \in Held, op \in Encoders :
        \E written \in (IF self.data = <<>> THEN {NoCall}
                        ELSE write_to(self.data[1], FormatOf(op))) :
            Apply(self, op, image_to_format(self, written, fs))

CallSaveToPath ==
    \E self \in Held, path \in SavePaths :
        \E saved \in (IF self.data = <<>> THEN {NoCall}
                      ELSE save(self.data[1], path)) :
            Apply(self, "save_to_path", save_to_path(self, path, saved, fs))

(***************************************************************************)
(* The watcher.  The watch loop lives in the per-platform module; it is    *)
(* modelled from its documented contract: a loop that, at each checkpoint, *)
(* returns if the shutdown signal was delivered and otherwise, on a        *)
(* detected change, calls every handler in registration order, each call   *)
(* returning before the next one starts.                                   *)
(***************************************************************************)
HandlerIds == 1..MaxHandlers

watchRest == <<handlers, pending, changes, pc, round, running, reason, wstate,
               contentVars, imageVars>>

\* What dropping a WatcherShutdown value does: the loop is signalled.
DropWatcherShutdown == signal' = TRUE

\* A stop that forgets the token instead of dropping it.
stop_forget ==
    /\ token = "held"
    /\ token' = "stopped"
    /\ signal' = signal
    /\ UNCHANGED watchRest

\* A stop that consumes the token and withdraws the signal.
stop_unsignal ==
    /\ token = "held"
    /\ token' = "stopped"
    /\ signal' = FALSE
    /\ UNCHANGED watchRest

\* WatcherShutdown::stop(self) { drop(self); }
stop ==
    /\ token = "held"
    /\ token' = "stopped"
    /\ DropWatcherShutdown
    /\ UNCHANGED watchRest

\* The holder lets the token go out of scope without calling stop.
DropToken ==
    /\ token = "held"
    /\ token' = "dropped"
    /\ DropWatcherShutdown
    /\ UNCHANGED watchRest

add_handler ==
    /\ wstate = "Idle"
    /\ Len(handlers) < MaxHandlers
    /\ \E h \in HandlerIds \ {handlers[i] : i \in 1..Len(handlers)} :
           handlers' = Append(handlers, h)
    /\ UNCHANGED <<wstate, token, signal, pending, changes, pc, round, running, reason>>
    /\ UNCHANGED <<contentVars, imageVars>>

get_shutdown_channel ==
    /\ wstate = "Idle"
    /\ token = "none"
    /\ token' = "held"
    /\ UNCHANGED <<wstate, handlers, signal, pending, changes, pc, round, running, reason>>
    /\ UNCHANGED <<contentVars, imageVars>>

start_watch ==
    /\ wstate = "Idle"
    /\ wstate' = "Watching"
    /\ pc' = "check"
    /\ UNCHANGED <<handlers, token, signal, pending, changes, round, running, reason>>
    /\ UNCHANGED <<contentVars, imageVars>>

\* Another process writes the clipboard while the watcher is watching.
ClipboardChange ==
    /\ wstate = "Watching"
    /\ changes < MaxChanges
    /\ changes' = changes + 1
    /\ pending' = pending + 1
    /\ UNCHANGED <<wstate, handlers, token, signal, pc, round, running, reason>>
    /\ UNCHANGED <<contentVars, imageVars>>

\* Checkpoint of the loop: the shutdown signal was delivered, start_watch returns.
ObserveShutdown ==
    /\ wstate = "Watching"
    /\ pc = "check"
    /\ signal
    /\ wstate' = "Stopped"
    /\ pc' = "done"
    /\ reason' = "shutdown"
    /\ UNCHANGED <<handlers, token, signal, pending, changes, round, running>>
    /\ UNCHANGED <<contentVars, imageVars>>

\* Checkpoint of the loop: no signal, and the clipboard content has changed.
DetectChange ==
    /\ wstate = "Watching"
    /\ pc = "check"
    /\ ~signal
    /\ pending > 0
    /\ pending' = pending - 1
    /\ round' = <<>>
    /\ pc' = "dispatch"
    /\ UNCHANGED <<wstate, handlers, token, signal, changes, running, reason>>
    /\ UNCHANGED <<contentVars, imageVars>>

\* A dispatch that walks the handlers from the last registered to the first.
NextHandlerReversed == handlers[Len(handlers) - Len(round)]

\* The handler the dispatch calls next: the first one not called yet.
NextHandler == handlers[Len(round) + 1]

\* The dispatch may make its next call: the one before it has returned.
MayCall == running = {}

\* The loop calls on_clipboard_change on the next handler.
InvokeHandler ==
    /\ wstate = "Watching"
    /\ pc = "dispatch"
    /\ MayCall
    /\ Len(round) < Len(handlers)
    /\ running' = running \cup {NextHandler}
    /\ round' = Append(round, NextHandler)
    /\ UNCHANGED <<wstate, handlers, token, signal, pending, changes, pc, reason>>
    /\ UNCHANGED <<contentVars, imageVars>>

\* A handler's on_clipboard_change returns.
HandlerReturn ==
    /\ \E h \in running : running' = running \ {h}
    /\ UNCHANGED <<wstate, handlers, token, signal, pending, changes, pc, round, reason>>
    /\ UNCHANGED <<contentVars, imageVars>>

\* Every handler was called and has returned: back to the checkpoint.
EndDispatch ==
    /\ wstate = "Watching"
    /\ pc = "dispatch"
    /\ running = {}
    /\ Len(round) = Len(handlers)
    /\ pc' = "check"
    /\ UNCHANGED <<wstate, handlers, token, signal, pending, changes, round, running, reason>>
    /\ UNCHANGED <<contentVars, imageVars>>

\* The OS binding reports an unrecoverable error: start_watch returns.
OsError ==
    /\ wstate = "Watching"
    /\ pc = "check"
    /\ wstate' = "Stopped"
    /\ pc' = "done"
    /\ reason' = "os_error"
    /\ UNCHANGED <<handlers, token, signal, pending, changes, round, running>>
    /\ UNCHANGED <<contentVars, imageVars>>

WatchInit ==
    /\ wstate = "Idle"
    /\ handlers = <<>>
    /\ token = "none"
    /\ signal = FALSE
    /\ pending = 0
    /\ changes = 0
    /\ pc = "idle"
    /\ round = <<>>
    /\ running = {}
    /\ reason = ""

(***************************************************************************)
(* Specifications: one per component, the other components held still.     *)
(***************************************************************************)
ContentIdle ==
    /\ content = [tag |-> "Text", s |-> <<>>]
    /\ rFormat = <<>>
    /\ rBytes = <<>>
    /\ rStr = <<>>

ContentNext ==
    \/ CallGetFormat
    \/ CallAsBytes
    \/ CallAsStr

ImageNext ==
    \/ CallEmpty
    \/ CallFromDynamicImage
    \/ CallFromPath
    \/ CallFromBytes
    \/ CallIsEmpty
    \/ CallGetSize
    \/ CallThumbnail
    \/ CallResize
    \/ CallImageToFormat
    \/ CallSaveToPath

LoopNext ==
    \/ ObserveShutdown
    \/ DetectChange
    \/ InvokeHandler
    \/ EndDispatch

WatchNext ==
    \/ add_handler
    \/ get_shutdown_channel
    \/ start_watch
    \/ ClipboardChange
    \/ stop
    \/ DropToken
    \/ LoopNext
    \/ HandlerReturn
    \/ OsError

InitContent == ContentInit /\ ImageInit /\ WatchInit

InitImage == ContentIdle /\ ImageInit /\ WatchInit

InitWatch == ContentIdle /\ ImageInit /\ WatchInit

SpecContent == InitContent /\ [][ContentNext]_vars

SpecImage == InitImage /\ [][ImageNext]_vars

SpecWatch == InitWatch /\ [][WatchNext]_vars

\* The watching thread keeps running, and every handler call returns.
FairSpecWatch ==
    /\ SpecWatch
    /\ WF_vars(LoopNext)
    /\ WF_vars(HandlerReturn)

(***************************************************************************)
(* Properties.                                                             *)
(***************************************************************************)

C2_HandlersInOrder ==
    /\ Len(round) <= Len(handlers)
    /\ \A i \in 1..Len(round) : round[i] = handlers[i]
    /\ Cardinality(running) <= 1
    /\ running # {} => (round # <<>> /\ running = {round[Len(round)]})
    /\ (pc \in {"check", "done"} /\ changes - pending > 0) =>
           (round = handlers /\ running = {})

\* A change was dispatched to two handlers registered against their id order.
C2_Witness ==
    /\ pc = "check"
    /\ changes - pending > 0
    /\ Len(handlers) >= 2
    /\ handlers[1] > handlers[2]
    /\ round = handlers

\* C3: once stop was called on a Watching watcher, start_watch eventually
\* returns (given that handler calls return), also without any clipboard
\* change; Stopped is never left and no handler is called in it.
C3_StopTerminates ==
    /\ (token = "stopped" /\ wstate = "Watching") ~> (wstate = "Stopped")
    /\ [][wstate = "Stopped" =>
            (wstate' = "Stopped" /\ round' = round /\ running' = running)]_vars

\* start_watch returned after stop, with handlers registered and no change made.
C3_Witness ==
    /\ token = "stopped"
    /\ wstate = "Stopped"
    /\ reason = "shutdown"
    /\ changes = 0
    /\ handlers # <<>>

\* C4: Files(list): as_str is the empty-content error and as_bytes is empty
\* for the empty list; otherwise they are the first path and its bytes.
C4_FilesFirstPath ==
    content.tag = "Files" =>
        /\ rStr # <<>> =>
              IF content.list = <<>>
              THEN ~rStr[1].ok /\ rStr[1].err = "content is empty"
              ELSE rStr[1].ok /\ rStr[1].val = content.list[1]
        /\ rBytes # <<>> =>
              IF content.list = <<>>
              THEN rBytes[1] = <<>>
              ELSE rBytes[1] = Utf8Encode(content.list[1])

\* as_str and as_bytes were called on a list of two different paths.
C4_Witness ==
    /\ content.tag = "Files"
    /\ Len(content.list) = 2
    /\ content.list[1] # content.list[2]
    /\ rStr # <<>>
    /\ rBytes # <<>>

\* C5: Image(img): as_str is an error, as_bytes is empty, get_format is Image.
C5_ImageHasNoText ==
    content.tag = "Image" =>
        /\ rStr # <<>> => ~rStr[1].ok
        /\ rBytes # <<>> => rBytes[1] = <<>>
        /\ rFormat # <<>> => rFormat[1] = [tag |-> "Image"]

\* All three were called on an image that holds pixels.
C5_Witness ==
    /\ content.tag = "Image"
    /\ content.img.data # <<>>
    /\ rStr # <<>>
    /\ rBytes # <<>>
    /\ rFormat # <<>>

\* C6: on the empty image, every operation that needs pixels returns "image is
\* empty", calls neither the codec nor the file system, and the image is still
\* empty with size (0,0).
C6_EmptyImageFails ==
    (iret.op \in NeedPixels /\ is_empty(img)) =>
        /\ ~iret.ret.ok
        /\ iret.ret.err = "image is empty"
        /\ io = <<>>
        /\ get_size(img) = <<0, 0>>

\* save_to_path was called on the empty image.
C6_Witness ==
    /\ iret.op = "save_to_path"
    /\ is_empty(img)

\* C7: is_empty holds exactly when there is no pixel buffer; get_size is (0,0)
\* without one and the buffer's own dimensions with one.
C7_SizeMatchesPixels ==
    \A v \in Held :
        /\ is_empty(v) <=> v.data = <<>>
        /\ v.data = <<>> => get_size(v) = <<0, 0>>
        /\ v.data # <<>> => get_size(v) = dimensions(v.data[1])

\* A thumbnail came back smaller than the image it was made from.
C7_Witness ==
    /\ iret.op = "thumbnail"
    /\ iret.ret.ok
    /\ iret.ret.val.width < img.width

\* C8: Other(name, bytes): get_format is Other(name), as_bytes is bytes, and
\* as_str is the text whose UTF-8 encoding bytes is, or a decode error when
\* there is no such text.
C8_OtherDecodesUtf8 ==
    content.tag = "Other" =>
        /\ rFormat # <<>> => rFormat[1] = [tag |-> "Other", name |-> content.format]
        /\ rBytes # <<>> => rBytes[1] = content.bytes
        /\ rStr # <<>> =>
              LET texts == {s \in SeqsUpTo(Chars, MaxBytes) :
                                Utf8Encode(s) = content.bytes}
              IN  IF texts = {}
                  THEN ~rStr[1].ok /\ rStr[1].err = "Utf8Error"
                  ELSE rStr[1].ok /\ rStr[1].val \in texts

\* as_str decoded a buffer holding a two-byte character.
C8_Witness ==
    /\ content.tag = "Other"
    /\ rStr # <<>>
    /\ rStr[1].ok
    /\ Len(rStr[1].val) < Len(content.bytes)
    /\ rFormat # <<>>
    /\ rBytes # <<>>

\* C9: Text(s), Rtf(s), Html(s): get_format names the case, as_bytes decodes
\* back to s as UTF-8, as_str is Ok(s).
C9_TextLikeTotal ==
    content.tag \in TextLike =>
        /\ rFormat # <<>> => rFormat[1] = [tag |-> content.tag]
        /\ rBytes # <<>> =>
              /\ from_utf8(rBytes[1]) = Ok(content.s)
              /\ Len(rBytes[1]) >= Len(content.s)
        /\ rStr # <<>> => (rStr[1].ok /\ rStr[1].val = content.s)

\* All three were called on an Html value holding a three-byte character.
C9_Witness ==
    /\ content.tag = "Html"
    /\ \E i \in 1..Len(content.s) : content.s[i] = 8364
    /\ rFormat # <<>>
    /\ rBytes # <<>>
    /\ rStr # <<>>

\* C10: when as_str is Ok(t), as_bytes is the bytes of t; when as_str fails,
\* as_bytes is empty for Image and the empty Files list and the raw bytes for
\* Other.
C10_StrAndBytesAgree ==
    (rStr # <<>> /\ rBytes # <<>>) =>
        IF rStr[1].ok
        THEN rBytes[1] = Utf8Encode(rStr[1].val)
        ELSE \/ content.tag = "Image" /\ rBytes[1] = <<>>
             \/ content.tag = "Files" /\ content.list = <<>> /\ rBytes[1] = <<>>
             \/ content.tag = "Other" /\ rBytes[1] = content.bytes

\* as_str failed on a non-UTF-8 buffer whose bytes as_bytes returned.
C10_Witness ==
    /\ content.tag = "Other"
    /\ rStr # <<>>
    /\ ~rStr[1].ok
    /\ rBytes # <<>>
    /\ rBytes[1] # <<>>

====
